---- MODULE Spec2Model ----
(***************************************************************************)
(* Homeopathy-LLM: the session bookkeeping of the two front ends.          *)
(*                                                                         *)
(*   src/telegram_bot.py  the Telegram bot: one session per user id, a     *)
(*                        ConversationHandler with the single state        *)
(*                        DESCRIBING_SYMPTOMS, a sliding window of six     *)
(*                        history entries;                                 *)
(*   src/doctor_bot.py    the CLI bot: one history per process and a       *)
(*                        blocking read-eval loop.                         *)
(*                                                                         *)
(* A text is a sequence of tokens (each token a piece of the Python        *)
(* string), so that startswith, strip and lower are computed, not assumed. *)
(* The retrieval library and the completion endpoint are inputs of each    *)
(* step, drawn from the sets below; the process environment and the chats  *)
(* the users write in are drawn once, at the start of a run.               *)
(***************************************************************************)
EXTENDS Integers, Sequences, FiniteSets, TLC

\* ------------------------------------------------------------ bounds ----

\* Consultation turns counted by the sessions (Telegram: the sum of the
\* consultation_count fields; CLI: completed turns) before the model stops
\* accepting further symptom messages.
MaxTurns == 4

\* ------------------------------------------------- program constants ----

\* telegram_bot.py:23
DESCRIBING_SYMPTOMS == 1

\* ConversationHandler.END, returned by cancel (telegram_bot.py:248)
END == -1

\* telegram_bot.py:191-192: "Keep only last 6 messages"
MaxHistory == 6

Users == {"u1", "u2"}

\* The chats a user may write to the bot in (private chats, a group).
Chats == {"c1", "c2"}

\* Who writes to the bot where, in one run: two users each in their private
\* chat, or one user in two chats.
Populations == {{<<"u1", "c1">>, <<"u2", "c2">>}, {<<"u1", "c1">>, <<"u1", "c2">>}}

\* --------------------------------------------------------------- texts ----

StartsWith(s, p) ==
    /\ Len(s) >= Len(p)
    /\ SubSeq(s, 1, Len(p)) = p

\* The two emoji the quick-action keyboard starts its buttons with
\* (telegram_bot.py:205): U+1F50D and U+1F504.
Magnifier == "U+1F50D"
Arrows == "U+1F504"

QuickDescribe == <<Magnifier, " Describe more symptoms or answer questions">>
QuickRestart == <<Arrows, " Start a new consultation">>
ResetPlease == <<"Reset please">>

\* What a Telegram user may send.
TgTexts ==
    { <<"/", "start">>, <<"/", "cancel">>, <<"/", "help">>,
      QuickDescribe, QuickRestart, <<Magnifier, " and a cough">>,
      <<"headache">> }

\* filters.COMMAND: the message starts with a bot command.
IsCommand(text) == Len(text) > 0 /\ text[1] = "/"

\* filters.Regex(r'^(U+1F50D|U+1F504)') (telegram_bot.py:321)
MatchesQuickRegex(text) == Len(text) > 0 /\ text[1] \in {Magnifier, Arrows}

\* CommandHandler(name, ...)
IsCommandNamed(text, name) == text = <<"/", name>>

\* What the completion endpoint may answer as choices[0].message.content.
\* The CLI inspects how the answer starts (doctor_bot.py:138), the Telegram
\* bot passes it on unread.
TgReplies == { <<"Take Arnica 30C">> }
CliReplies == { <<"Take Arnica 30C">>, <<"Error:", " no remedy found">> }

\* ------------------------------------------------- completion endpoint ----

\* One outcome of requests.post(...) and of reading its body:
\*   kind "conn"  requests.post raises a RequestException (connection, timeout)
\*   kind "resp"  a response with a status and a body, where the body is
\*     "wellformed"   JSON of the shape the code reads,
\*     "notjson_req"  not JSON; response.json() raises requests' JSONDecodeError,
\*                    a RequestException (requests >= 2.27),
\*     "notjson_val"  not JSON; response.json() raises a plain ValueError,
\*     "shape"        JSON without choices[0].message.content (status 200) or
\*                    whose "error" is no object (other statuses): the subscript
\*                    or .get raises KeyError, IndexError, TypeError or
\*                    AttributeError.
NoReply == <<>>

HttpOutcomes(replies) ==
    { [kind |-> "conn", status |-> 0, body |-> "none", reply |-> NoReply] }
    \cup { [kind |-> "resp", status |-> 200, body |-> "wellformed", reply |-> r] :
             r \in replies }
    \cup { [kind |-> "resp", status |-> 200, body |-> b, reply |-> NoReply] :
             b \in {"notjson_req", "notjson_val", "shape"} }
    \cup { [kind |-> "resp", status |-> 500, body |-> b, reply |-> NoReply] :
             b \in {"wellformed", "notjson_req", "notjson_val", "shape"} }

\* The inputs of one consultation turn, read in this order: the retriever's
\* outcome and, if it returned, the endpoint's outcome.  What is never read is
\* fixed.
AnyOutcome == [kind |-> "conn", status |-> 0, body |-> "none", reply |-> NoReply]

TurnInputs(replies) ==
    { [retr |-> "raise", http |-> AnyOutcome] }
    \cup { [retr |-> "ok", http |-> h] : h \in HttpOutcomes(replies) }

\* What fails in a turn on the inputs inp, the API key set or not: the
\* retrieval, the missing key, the connection, the body of the response, its
\* status; "none" when the completion produces a reply.
Cause(inp, keySet) ==
    IF inp.retr = "raise" THEN "retrieval"
    ELSE IF ~keySet THEN "key"
    ELSE IF inp.http.kind = "conn" THEN "conn"
    ELSE IF inp.http.body # "wellformed" THEN "body"
    ELSE IF inp.http.status # 200 THEN "status"
    ELSE "none"

StatusText(http) == IF http.status = 200 THEN "200" ELSE "500"

\* ---------------------------------------------- telegram_bot.py query_ai ----

TgKeyMissingMsg ==
    <<"(x)", " Configuration Error: The AI service API key (OPENROUTER_API_KEY) is missing. Please check your setup.">>
TgStatusMsg(http) ==
    <<"(x)", " I'm having technical difficulties. Please try again later. (Error: ", StatusText(http), ")">>
TgConnMsg ==
    <<"(x)", " Connection error. Please try again. Error: ", "str(e)">>

\* The same function with a second attempt after a failed request.
TgQueryAIRetry(keySet, http) ==
    IF ~keySet
    THEN [raised |-> FALSE, posts |-> 0, result |-> TgKeyMissingMsg]
    ELSE IF http.kind = "conn"
    THEN [raised |-> FALSE, posts |-> 2, result |-> TgConnMsg]
    ELSE IF http.body # "wellformed"
    THEN [raised |-> FALSE, posts |-> 1, result |-> TgConnMsg]
    ELSE IF http.status = 200
    THEN [raised |-> FALSE, posts |-> 1, result |-> http.reply]
    ELSE [raised |-> FALSE, posts |-> 2, result |-> TgStatusMsg(http)]

\* The same function catching only requests.exceptions.RequestException, as
\* the CLI bot's does.
TgQueryAINarrow(keySet, http) ==
    IF ~keySet
    THEN [raised |-> FALSE, posts |-> 0, result |-> TgKeyMissingMsg]
    ELSE IF http.kind = "conn" \/ http.body = "notjson_req"
    THEN [raised |-> FALSE, posts |-> 1, result |-> TgConnMsg]
    ELSE IF http.body # "wellformed"
    THEN [raised |-> TRUE, posts |-> 1, result |-> <<>>]
    ELSE IF http.status = 200
    THEN [raised |-> FALSE, posts |-> 1, result |-> http.reply]
    ELSE [raised |-> FALSE, posts |-> 1, result |-> TgStatusMsg(http)]

\* query_ai(user_message, context, history): what it returns, whether it
\* raises, and how many requests it posts.  keySet is os.getenv(...) at the
\* time of the call, which is what it was at start-up: the program never
\* writes its environment.  Every exception inside the try is caught (except Exception).
TgQueryAI(keySet, http) ==
    IF ~keySet
    THEN [raised |-> FALSE, posts |-> 0, result |-> TgKeyMissingMsg]
    ELSE IF http.kind = "conn"
    THEN [raised |-> FALSE, posts |-> 1, result |-> TgConnMsg]
    ELSE IF http.body # "wellformed"
    THEN [raised |-> FALSE, posts |-> 1, result |-> TgConnMsg]
    ELSE IF http.status = 200
    THEN [raised |-> FALSE, posts |-> 1, result |-> http.reply]
    ELSE [raised |-> FALSE, posts |-> 1, result |-> TgStatusMsg(http)]

\* ------------------------------------------------ doctor_bot.py query_ai ----

CliKeyMissingMsg == <<"Error:", " Configuration missing CHUTEAI_API_KEY.">>
CliStatusMsg(http) ==
    <<"Error:", " Unable to get response (Status: ", StatusText(http),
      "). Chute.ai Message: ", "error_message">>
CliConnMsg ==
    <<"Error:", " Failed to connect to Chute.ai. Check your connection or API endpoint. Details: ", "str(e)">>

\* query_ai(user_message, context, history) of the CLI bot: only
\* requests.exceptions.RequestException is caught (doctor_bot.py:100).
CliQueryAI(keySet, http) ==
    IF ~keySet
    THEN [raised |-> FALSE, posts |-> 0, result |-> CliKeyMissingMsg]
    ELSE IF http.kind = "conn"
    THEN [raised |-> FALSE, posts |-> 1, result |-> CliConnMsg]
    ELSE IF http.body = "notjson_req"
    THEN [raised |-> FALSE, posts |-> 1, result |-> CliConnMsg]
    ELSE IF http.body \in {"notjson_val", "shape"}
    THEN [raised |-> TRUE, posts |-> 1, result |-> <<>>]
    ELSE IF http.status = 200
    THEN [raised |-> FALSE, posts |-> 1, result |-> http.reply]
    ELSE [raised |-> FALSE, posts |-> 1, result |-> CliStatusMsg(http)]

\* ------------------------------------------------------------- state ----

VARIABLES
    frontend,       \* which script runs: "telegram" or "cli"
    env,            \* the environment at start-up: [token, db, key]
    pc,             \* position of the process (see Init)
    storeOpened,    \* the Chroma store on ./vector_db has been opened
    user_sessions,  \* TelegramHomeopathyBot.user_sessions: user id -> session
    members,        \* the <<user, chat>> pairs updates come from
    conv,           \* the ConversationHandler's state of each <<user, chat>>:
                    \* its conversations are keyed by chat and user
    chat_history,   \* HomeopathyDoctorBot.chat_history
    cliTurns,       \* turns the CLI loop has completed (history updated)
    stdin,          \* the CLI's standard input: "open", or "eof" once a read
                    \* has met its end
    full,           \* per user: every entry appended since the session was
                    \* last reset, never truncated (bookkeeping)
    sinceStart,     \* users whose start has run with no query_ai call since
    wiped,          \* users whose latest start discarded a history
    sinceCancel,    \* users whose cancel has run with no start since
    last            \* what the last step did if it was a consultation turn,
                    \* NoObs if it was not (bookkeeping)

vars == <<frontend, env, pc, storeOpened, user_sessions, members, conv, chat_history,
          cliTurns, stdin, full, sinceStart, wiped, sinceCancel, last>>

tgVars == <<user_sessions, members, conv, full, sinceStart, wiped, sinceCancel>>
cliVars == <<chat_history, cliTurns, stdin>>

\* The observation of a step that did nothing observable.
NoObs ==
    [ actor |-> "nobody",   \* the user (or "cli") whose turn it was
      handler |-> "none",   \* handle_symptoms or start_consultation
      ret |-> "none",       \* the state returned, or how the loop went on
      called |-> FALSE,     \* query_ai was called
      history |-> <<>>,     \* with this history
      first |-> FALSE,      \* as the first call since start
      cause |-> "none",     \* what failed during the turn (see Cause)
      raised |-> FALSE,     \* query_ai raised
      result |-> <<>>,      \* what query_ai returned
      posts |-> 0,          \* requests posted to the completion endpoint
      shown |-> <<>> ]      \* the text shown to the user in answer

Init ==
    /\ frontend \in {"telegram", "cli"}
    /\ env \in [token : BOOLEAN, db : BOOLEAN, key : BOOLEAN]
    /\ pc = IF frontend = "telegram" THEN "import" ELSE "main"
    /\ storeOpened = FALSE
    /\ user_sessions = [u \in {} |-> 0]
    /\ members \in (IF frontend = "telegram" THEN Populations ELSE {{}})
    /\ conv = [m \in members |-> END]
    /\ chat_history = <<>>
    /\ cliTurns = 0
    /\ stdin = "open"
    /\ full = [u \in Users |-> <<>>]
    /\ sinceStart = {}
    /\ wiped = {}
    /\ sinceCancel = {}
    /\ last = NoObs

\* ----------------------------------------------- telegram_bot.py sessions ----

\* The session get_user_session creates (lines 43-47).
NewSession == [chat_history |-> <<>>, consultation_count |-> 0, last_query |-> "None"]

\* The session start installs (line 159).
StartedSession == [chat_history |-> <<>>, consultation_count |-> 0]

\* get_user_session(user_id): the sessions after the call.
GetUserSession(sessions, u) ==
    [v \in DOMAIN sessions \cup {u} |->
        IF v \in DOMAIN sessions THEN sessions[v] ELSE NewSession]

\* start resetting the sessions of all users, not of one.
StartSessionShared(sessions, u) == [v \in Users |-> StartedSession]

\* start without its reset.
StartSessionNoReset(sessions, u) == sessions

\* start, line 159: user_sessions[user_id] = {...}
StartSession(sessions, u) ==
    [v \in DOMAIN sessions \cup {u} |->
        IF v = u THEN StartedSession ELSE sessions[v]]

\* cancel, lines 240-241: del user_sessions[user_id] when present
CancelSession(sessions, u) ==
    [v \in DOMAIN sessions \ {u} |-> sessions[v]]

\* handle_quick_actions, lines 220-233
QuickActionSessions(sessions, u, text) ==
    IF text \in {QuickDescribe, ResetPlease}
    THEN sessions
    ELSE IF text \in {QuickRestart, ResetPlease} /\ u \in DOMAIN sessions
    THEN [sessions EXCEPT ![u] = NewSession]
    ELSE sessions

\* The first six entries instead of the last six.
TruncateHead(h) ==
    IF Len(h) > MaxHistory THEN SubSeq(h, 1, MaxHistory) ELSE h

\* No truncation at all.
TruncateNever(h) == h

\* Lines 191-192: chat_history[-6:] once the list is longer than six.
Truncate(h) ==
    IF Len(h) > MaxHistory THEN SubSeq(h, Len(h) - MaxHistory + 1, Len(h)) ELSE h

RECURSIVE SumCounts(_, _)
SumCounts(sessions, S) ==
    IF S = {} THEN 0
    ELSE LET u == CHOOSE v \in S : TRUE
         IN sessions[u].consultation_count + SumCounts(sessions, S \ {u})

\* Turns the sessions count at present.
TotalCount(sessions) == SumCounts(sessions, DOMAIN sessions)

\* --------------------------------------------- telegram_bot.py dispatch ----

\* main, lines 317-334: the handler an update reaches.  The application asks
\* its handlers in the order they were added and runs the first that accepts:
\* the ConversationHandler (entry points when the user is in no conversation;
\* the state's handlers, then the fallbacks, when in one), then /help, then
\* /cancel, then generic_message.
Dispatch(state, text) ==
    IF state = END /\ IsCommandNamed(text, "start")
    THEN [handler |-> "start", via |-> "conv"]
    ELSE IF state = DESCRIBING_SYMPTOMS /\ MatchesQuickRegex(text)
    THEN [handler |-> "handle_quick_actions", via |-> "conv"]
    ELSE IF state = DESCRIBING_SYMPTOMS /\ ~IsCommand(text)
    THEN [handler |-> "handle_symptoms", via |-> "conv"]
    ELSE IF state = DESCRIBING_SYMPTOMS /\ IsCommandNamed(text, "cancel")
    THEN [handler |-> "cancel", via |-> "conv"]
    ELSE IF IsCommandNamed(text, "help")
    THEN [handler |-> "help_command", via |-> "app"]
    ELSE IF IsCommandNamed(text, "cancel")
    THEN [handler |-> "cancel", via |-> "app"]
    ELSE IF ~IsCommand(text)
    THEN [handler |-> "generic_message", via |-> "app"]
    ELSE [handler |-> "none", via |-> "app"]

\* The conversation state after a handler returned ret: the ConversationHandler
\* records the return value of the handlers it runs itself, and only of those.
ConvAfter(cv, u, c, via, ret) ==
    IF via = "conv" THEN [cv EXCEPT ![<<u, c>>] = ret] ELSE cv

\* ---------------------------------------------- telegram_bot.py start-up ----

\* check_dependencies, lines 286-300
CheckDependencies(e) ==
    IF ~e.token THEN FALSE
    ELSE IF ~e.db THEN FALSE
    ELSE IF ~e.key THEN FALSE
    ELSE TRUE

\* Importing the module runs line 135, homeopathy_bot = TelegramHomeopathyBot():
\* the constructor loads the embedding model and opens the store on
\* ./vector_db (which the store library may create), or raises.
TgImport ==
    /\ frontend = "telegram"
    /\ pc = "import"
    /\ \E ok \in BOOLEAN, created \in BOOLEAN :
         IF ok
         THEN /\ storeOpened' = TRUE
              /\ env' = [env EXCEPT !.db = @ \/ created]
              /\ pc' = "loaded"
         ELSE /\ pc' = "crashed"
              /\ UNCHANGED <<storeOpened, env>>
    /\ UNCHANGED <<frontend, tgVars, cliVars, last>>

\* main, lines 302-341: the checks, then the application and run_polling.
TgMain ==
    /\ frontend = "telegram"
    /\ pc = "loaded"
    /\ pc' = IF CheckDependencies(env) THEN "polling" ELSE "exited"
    /\ UNCHANGED <<frontend, env, storeOpened, tgVars, cliVars, last>>

\* ---------------------------------------------- telegram_bot.py handlers ----

\* The bookkeeping list restarts whenever the user's history is empty or gone.
FullAfter(f, sessions, u) ==
    [f EXCEPT ![u] =
        IF u \notin DOMAIN sessions \/ sessions[u].chat_history = <<>>
        THEN <<>> ELSE @]

Entry(role, content, owner) == [role |-> role, content |-> content, owner |-> owner]

TgSorryMsg == <<"(x)", " Sorry, I encountered an error. Please try again.">>
DoctorPrefix == <<"(doctor)", " *Homeopathy Doctor:*">>

\* start, lines 138-162
Start(u, c, text) ==
    /\ frontend = "telegram" /\ pc = "polling" /\ <<u, c>> \in members
    /\ LET d == Dispatch(conv[<<u, c>>], text)
       IN /\ d.handler = "start"
          /\ user_sessions' = StartSession(user_sessions, u)
          /\ conv' = ConvAfter(conv, u, c, d.via, DESCRIBING_SYMPTOMS)
          /\ full' = FullAfter(full, user_sessions', u)
          /\ sinceStart' = sinceStart \cup {u}
          /\ wiped' = IF u \in DOMAIN user_sessions /\ user_sessions[u].chat_history # <<>>
                      THEN wiped \cup {u} ELSE wiped \ {u}
          /\ sinceCancel' = sinceCancel \ {u}
          /\ last' = NoObs
    /\ UNCHANGED <<frontend, env, pc, storeOpened, members, cliVars>>

\* handle_symptoms, lines 164-214, on some inputs inp (see TurnInputs).
HandleSymptoms(u, c, text) ==
    /\ frontend = "telegram" /\ pc = "polling" /\ <<u, c>> \in members
    /\ Dispatch(conv[<<u, c>>], text).handler = "handle_symptoms"
    /\ TotalCount(user_sessions) < MaxTurns
    /\ \E inp \in TurnInputs(TgReplies) :
       LET d == Dispatch(conv[<<u, c>>], text)
           retr == inp.retr
           keySet == env.key
           http == inp.http
           s0 == GetUserSession(user_sessions, u)
           s1 == [s0 EXCEPT ![u].consultation_count = @ + 1]
           hist == s1[u].chat_history
           called == retr = "ok"
           q == TgQueryAI(keySet, http)
           turn == <<Entry("user", text, u), Entry("assistant", q.result, u)>>
           obs == [NoObs EXCEPT !.actor = u, !.handler = "handle_symptoms",
                                !.ret = "DESCRIBING_SYMPTOMS",
                                !.called = called,
                                !.history = IF called THEN hist ELSE <<>>,
                                !.first = called /\ u \in sinceStart,
                                !.cause = Cause(inp, keySet),
                                !.raised = called /\ q.raised,
                                !.result = IF called /\ ~q.raised THEN q.result ELSE <<>>,
                                !.posts = IF called THEN q.posts ELSE 0]
       IN /\ d.handler = "handle_symptoms"
          /\ IF ~called \/ q.raised
             THEN \* except Exception, lines 209-212
                  /\ user_sessions' = s1
                  /\ full' = full
                  /\ last' = [obs EXCEPT !.shown = TgSorryMsg]
             ELSE \* lines 186-207
                  /\ user_sessions' = [s1 EXCEPT ![u].chat_history = Truncate(hist \o turn)]
                  /\ full' = [full EXCEPT ![u] = @ \o turn]
                  /\ last' = [obs EXCEPT !.shown = DoctorPrefix \o q.result]
          /\ conv' = ConvAfter(conv, u, c, d.via, DESCRIBING_SYMPTOMS)
          /\ sinceStart' = IF called THEN sinceStart \ {u} ELSE sinceStart
          /\ wiped' = wiped
          /\ sinceCancel' = sinceCancel
    /\ UNCHANGED <<frontend, env, pc, storeOpened, members, cliVars>>

\* handle_quick_actions, lines 216-235
HandleQuickActions(u, c, text) ==
    /\ frontend = "telegram" /\ pc = "polling" /\ <<u, c>> \in members
    /\ LET d == Dispatch(conv[<<u, c>>], text)
       IN /\ d.handler = "handle_quick_actions"
          /\ user_sessions' = QuickActionSessions(user_sessions, u, text)
          /\ conv' = ConvAfter(conv, u, c, d.via, DESCRIBING_SYMPTOMS)
          /\ full' = FullAfter(full, user_sessions', u)
          /\ last' = NoObs
    /\ UNCHANGED <<frontend, env, pc, storeOpened, members, cliVars, sinceStart, wiped, sinceCancel>>

\* cancel, lines 237-248: the ConversationHandler's fallback, and a command
\* handler of the application for users in no conversation.
Cancel(u, c, text) ==
    /\ frontend = "telegram" /\ pc = "polling" /\ <<u, c>> \in members
    /\ LET d == Dispatch(conv[<<u, c>>], text)
       IN /\ d.handler = "cancel"
          /\ user_sessions' = CancelSession(user_sessions, u)
          /\ conv' = ConvAfter(conv, u, c, d.via, END)
          /\ full' = FullAfter(full, user_sessions', u)
          /\ UNCHANGED <<sinceStart, wiped>>
          /\ sinceCancel' = sinceCancel \cup {u}
          /\ last' = NoObs
    /\ UNCHANGED <<frontend, env, pc, storeOpened, members, cliVars>>

\* help_command, lines 250-268
HelpCommand(u, c, text) ==
    /\ frontend = "telegram" /\ pc = "polling" /\ <<u, c>> \in members
    /\ Dispatch(conv[<<u, c>>], text).handler = "help_command"
    /\ last' = NoObs
    /\ UNCHANGED <<frontend, env, pc, storeOpened, tgVars, cliVars>>

\* generic_message, lines 271-276
GenericMessage(u, c, text) ==
    /\ frontend = "telegram" /\ pc = "polling" /\ <<u, c>> \in members
    /\ Dispatch(conv[<<u, c>>], text).handler = "generic_message"
    /\ last' = NoObs
    /\ UNCHANGED <<frontend, env, pc, storeOpened, tgVars, cliVars>>

\* An update no handler accepts (/start inside a conversation: the entry
\* points are asked only when the user is in none).
Unhandled(u, c, text) ==
    /\ frontend = "telegram" /\ pc = "polling" /\ <<u, c>> \in members
    /\ Dispatch(conv[<<u, c>>], text).handler = "none"
    /\ last' = NoObs
    /\ UNCHANGED <<frontend, env, pc, storeOpened, tgVars, cliVars>>

\* -------------------------------------------------- doctor_bot.py texts ----

\* The CLI reads a line as a sequence of characters.
Whitespace == {" ", "\t"}

UpperCase == <<"A", "B", "C", "D", "E", "F", "G", "H", "I", "J", "K", "L", "M",
               "N", "O", "P", "Q", "R", "S", "T", "U", "V", "W", "X", "Y", "Z">>
LowerCase == <<"a", "b", "c", "d", "e", "f", "g", "h", "i", "j", "k", "l", "m",
               "n", "o", "p", "q", "r", "s", "t", "u", "v", "w", "x", "y", "z">>

LowerChar(c) ==
    IF \E i \in 1..Len(UpperCase) : UpperCase[i] = c
    THEN LowerCase[CHOOSE i \in 1..Len(UpperCase) : UpperCase[i] = c]
    ELSE c

\* str.lower()
Lower(s) == [i \in 1..Len(s) |-> LowerChar(s[i])]

RECURSIVE LStrip(_)
LStrip(s) == IF Len(s) > 0 /\ s[1] \in Whitespace THEN LStrip(Tail(s)) ELSE s

RECURSIVE RStrip(_)
RStrip(s) ==
    IF Len(s) > 0 /\ s[Len(s)] \in Whitespace THEN RStrip(SubSeq(s, 1, Len(s) - 1)) ELSE s

\* str.strip()
Strip(s) == RStrip(LStrip(s))

\* doctor_bot.py:115
QuitWords == { <<"q", "u", "i", "t">>, <<"e", "x", "i", "t">>, <<"b", "y", "e">> }

\* The lines a patient may type.
CliInputs ==
    { <<"q", "u", "i", "t">>, <<" ", "Q", "u", "i", "t", " ">>, <<"E", "X", "I", "T">>,
      <<"b", "y", "e">>, <<>>, <<" ", "\t">>,
      <<" ", "F", "l", "u">>, <<"b", "y", "e", "s">> }

IsQuit(user_input) == Lower(user_input) \in QuitWords

CliErrorPrefix == <<"Error:">>
CliIssueMsg == <<"Homeopathy Doctor: I encountered an issue. Please try again. ", "Error:", " ", "str(e)">>
CliDoctorPrefix == <<"Homeopathy Doctor: ">>

CliEntry(role, content, turn) == [role |-> role, content |-> content, turn |-> turn]

\* The update of the history without the check of the response.
CliRecordAlways(h, user_input, response, turn) ==
    h \o <<CliEntry("user", user_input, turn), CliEntry("assistant", response, turn)>>

\* Lines 136-139: the history after a turn.  turn numbers the turn (bookkeeping).
CliRecord(h, user_input, response, turn) ==
    IF ~StartsWith(response, CliErrorPrefix)
    THEN h \o <<CliEntry("user", user_input, turn), CliEntry("assistant", response, turn)>>
    ELSE h \o <<CliEntry("user", user_input, turn)>>

\* ------------------------------------------------- doctor_bot.py actions ----

\* main, lines 147-165: the checks, the constructor (which may raise), the loop.
CliMain ==
    /\ frontend = "cli"
    /\ pc = "main"
    /\ \E ok \in BOOLEAN :
         IF ~env.db \/ ~env.key
         THEN pc' = "exited" /\ storeOpened' = storeOpened
         ELSE IF ok
         THEN pc' = "loop" /\ storeOpened' = TRUE
         ELSE pc' = "exited" /\ storeOpened' = storeOpened
    /\ UNCHANGED <<frontend, env, tgVars, cliVars, last>>

\* Lines 113-117: a quit word ends the loop.
CliQuit(raw) ==
    /\ frontend = "cli" /\ pc = "loop" /\ stdin = "open"
    /\ IsQuit(Strip(raw))
    /\ pc' = "exited"
    /\ last' = NoObs
    /\ UNCHANGED <<frontend, env, storeOpened, tgVars, cliVars>>

\* Lines 119-121: an empty line asks again.
CliEmpty(raw) ==
    /\ frontend = "cli" /\ pc = "loop" /\ stdin = "open"
    /\ ~IsQuit(Strip(raw))
    /\ Strip(raw) = <<>>
    /\ last' = NoObs
    /\ UNCHANGED <<frontend, env, pc, storeOpened, tgVars, cliVars>>

\* Lines 123-139 and, when retrieval or query_ai raises, 144-145.
CliConsult(raw) ==
    /\ frontend = "cli" /\ pc = "loop" /\ stdin = "open"
    /\ cliTurns < MaxTurns
    /\ \E inp \in TurnInputs(CliReplies) :
       LET user_input == Strip(raw)
           retr == inp.retr
           keySet == env.key
           http == inp.http
           called == retr = "ok"
           q == CliQueryAI(keySet, http)
           obs == [NoObs EXCEPT !.actor = "cli", !.handler = "start_consultation",
                                !.ret = "continue",
                                !.called = called,
                                !.history = IF called THEN chat_history ELSE <<>>,
                                !.cause = Cause(inp, keySet),
                                !.raised = called /\ q.raised,
                                !.result = IF called /\ ~q.raised THEN q.result ELSE <<>>,
                                !.posts = IF called THEN q.posts ELSE 0]
       IN /\ ~IsQuit(user_input)
          /\ user_input # <<>>
          /\ IF ~called \/ q.raised
             THEN /\ UNCHANGED cliVars
                  /\ last' = [obs EXCEPT !.shown = CliIssueMsg]
             ELSE /\ chat_history' = CliRecord(chat_history, user_input, q.result, cliTurns + 1)
                  /\ cliTurns' = cliTurns + 1
                  /\ stdin' = stdin
                  /\ last' = [obs EXCEPT !.shown = CliDoctorPrefix \o q.result]
    /\ UNCHANGED <<frontend, env, pc, storeOpened, tgVars>>

\* Lines 141-143: Ctrl+C while the loop waits for a line.
CliInterrupt ==
    /\ frontend = "cli" /\ pc = "loop"
    /\ pc' = "exited"
    /\ last' = NoObs
    /\ UNCHANGED <<frontend, env, storeOpened, tgVars, cliVars>>

\* Line 113 at the end of the input: input() raises EOFError, which is no
\* KeyboardInterrupt, so control goes to except Exception (line 144).
CliEndOfInput ==
    /\ frontend = "cli" /\ pc = "loop"
    /\ stdin' = "eof"
    /\ pc' = "except"
    /\ last' = NoObs
    /\ UNCHANGED <<frontend, env, storeOpened, tgVars, chat_history, cliTurns>>

\* Lines 144-145 after the EOFError: the message is printed and the while
\* True goes on to the next read, which meets the end again.
CliReportIssue ==
    /\ frontend = "cli" /\ pc = "except"
    /\ pc' = "loop"
    /\ last' = NoObs
    /\ UNCHANGED <<frontend, env, storeOpened, tgVars, cliVars>>

\* ------------------------------------------------------- specification ----

Next ==
    \/ TgImport
    \/ TgMain
    \/ \E u \in Users, c \in Chats, text \in TgTexts : Start(u, c, text)
    \/ \E u \in Users, c \in Chats, text \in TgTexts : HandleSymptoms(u, c, text)
    \/ \E u \in Users, c \in Chats, text \in TgTexts : HandleQuickActions(u, c, text)
    \/ \E u \in Users, c \in Chats, text \in TgTexts : Cancel(u, c, text)
    \/ \E u \in Users, c \in Chats, text \in TgTexts : HelpCommand(u, c, text)
    \/ \E u \in Users, c \in Chats, text \in TgTexts : GenericMessage(u, c, text)
    \/ \E u \in Users, c \in Chats, text \in TgTexts : Unhandled(u, c, text)
    \/ CliMain
    \/ \E raw \in CliInputs : CliQuit(raw)
    \/ \E raw \in CliInputs : CliEmpty(raw)
    \/ \E raw \in CliInputs : CliConsult(raw)
    \/ CliInterrupt
    \/ CliEndOfInput
    \/ CliReportIssue

Spec == Init /\ [][Next]_vars

\* One pass of the CLI loop: a read of line 113 and what follows it.  An
\* interrupt is the user's doing and is not part of it.
CliLoopStep ==
    \/ \E raw \in CliInputs : CliQuit(raw) \/ CliEmpty(raw) \/ CliConsult(raw)
    \/ CliEndOfInput
    \/ CliReportIssue

\* The CLI loop is single-threaded and never waits on anything but its input:
\* while it can take a pass it does.
FairSpec == Spec /\ WF_vars(CliLoopStep)

\* --------------------------------------------------------- properties ----

\* u has the same session, or none, in before and after.
SameSession(before, after, u) ==
    /\ (u \in DOMAIN before) = (u \in DOMAIN after)
    /\ u \in DOMAIN before => after[u] = before[u]

HistoryOf(u) == user_sessions[u].chat_history

\* The last (at most) six entries of s, in their order.
LastSix(s) ==
    LET n == IF Len(s) < 6 THEN Len(s) ELSE 6
    IN [i \in 1..n |-> s[Len(s) - n + i]]

\* The step is a run of one of u's handlers that read or write the sessions.
HandlerRunFor(u) ==
    \E c \in Chats, text \in TgTexts :
        \/ Start(u, c, text)
        \/ HandleSymptoms(u, c, text)
        \/ HandleQuickActions(u, c, text)
        \/ Cancel(u, c, text)

TgTurn == last.handler = "handle_symptoms"
CliTurn == last.handler = "start_consultation"

\* C1: every session's chat_history has at most six entries, and so has every
\* history handed to query_ai by handle_symptoms.
C1_HistoryAtMostSix ==
    /\ \A u \in DOMAIN user_sessions : Len(HistoryOf(u)) <= 6
    /\ (TgTurn /\ last.called) => Len(last.history) <= 6

\* A session whose window has slid: more was appended than is kept.
C1_Witness ==
    \E u \in DOMAIN user_sessions :
        /\ Len(full[u]) > 6
        /\ Len(HistoryOf(u)) = 6
        /\ TgTurn /\ last.actor = u

\* C2: the CLI bot's chat_history never holds more than six messages.
C2_CliHistoryAtMostSix == Len(chat_history) <= 6

\* C3: the history kept is the six most recent entries of everything appended
\* since the session was reset, in order; the turn just completed is kept.
C3_SlidingWindow ==
    /\ \A u \in DOMAIN user_sessions : HistoryOf(u) = LastSix(full[u])
    /\ (TgTurn /\ last.called) =>
          LET h == HistoryOf(last.actor)
          IN /\ Len(h) >= 2
             /\ h[Len(h) - 1].role = "user"
             /\ h[Len(h)] = Entry("assistant", last.result, last.actor)

\* A window that slid and differs from the six oldest entries.
C3_Witness ==
    \E u \in DOMAIN user_sessions :
        /\ Len(full[u]) > 6
        /\ HistoryOf(u) # SubSeq(full[u], 1, 6)
        /\ TgTurn /\ last.actor = u

\* C4: a handler run for one user leaves every other user's session as it
\* was, a session holds only its owner's entries, and the history handed to
\* query_ai for a user holds only that user's entries.
C4_PerUserSessions ==
    /\ [](\A u \in DOMAIN user_sessions :
            \A i \in 1..Len(HistoryOf(u)) : HistoryOf(u)[i].owner = u)
    /\ []((TgTurn /\ last.called) =>
            \A i \in 1..Len(last.history) : last.history[i].owner = last.actor)
    /\ [][\A u \in Users, v \in Users :
            (/\ v # u
             /\ \/ ~SameSession(user_sessions, user_sessions', v)
                \/ \E m \in members : m[1] = v /\ conv'[m] # conv[m])
                => ~HandlerRunFor(u)]_vars

\* Two users with entries of their own, one of them just handed to query_ai.
C4_Witness ==
    /\ TgTurn /\ last.called /\ Len(last.history) > 0
    /\ \E v \in DOMAIN user_sessions : v # last.actor /\ Len(HistoryOf(v)) > 0

\* A text that tells the user of an error.
IsErrorText(t) == \E i \in 1..Len(t) : t[i] \in {"(x)", "Error:"}

\* The front end is ready for the next message.
Ready ==
    \/ TgTurn /\ last.ret = "DESCRIBING_SYMPTOMS" /\ pc = "polling"
    \/ CliTurn /\ last.ret = "continue" /\ pc = "loop"

\* C5 as stated: query_ai returns a string and never raises, whatever the
\* outcome of the completion call, and a failed turn ends with an error
\* message shown and the front end ready.
C5_QueryAiNeverRaises ==
    /\ last.called => (~last.raised /\ last.result # <<>>)
    /\ last.cause # "none" => (IsErrorText(last.shown) /\ Ready)

\* Whether the body is one the CLI bot's query_ai raises on.
CliRaisingBody(http) == http.kind = "resp" /\ http.body \in {"notjson_val", "shape"}

\* C5 as amended: the Telegram bot's query_ai returns a string and never
\* raises; the CLI bot's returns a string when the key is missing, the status
\* is not 200 or the request fails, and raises only on a malformed body;
\* either way a failed turn ends with an error message shown and the front
\* end ready.
C5_FailuresSurfaced ==
    /\ \A keySet \in BOOLEAN :
          /\ \A http \in HttpOutcomes(TgReplies) :
                LET q == TgQueryAI(keySet, http)
                IN /\ ~q.raised /\ q.result # <<>>
                   /\ (~keySet \/ http.kind = "conn" \/ http.status # 200
                          \/ http.body # "wellformed") => IsErrorText(q.result)
          /\ \A http \in HttpOutcomes(CliReplies) :
                LET q == CliQueryAI(keySet, http)
                IN /\ q.raised => (keySet /\ CliRaisingBody(http))
                   /\ ~q.raised => q.result # <<>>
                   /\ (~q.raised /\ (~keySet \/ http.kind = "conn" \/ http.status # 200
                          \/ http.body # "wellformed")) => IsErrorText(q.result)
    /\ (TgTurn /\ last.called) => (~last.raised /\ last.result # <<>>)
    /\ (CliTurn /\ last.called /\ last.cause # "body") =>
          (~last.raised /\ last.result # <<>>)
    /\ (last.called /\ last.cause \in {"key", "conn", "status"}) =>
          IsErrorText(last.result)
    /\ last.cause # "none" => (IsErrorText(last.shown) /\ Ready)

\* The CLI bot's query_ai raised, and the loop told the user and went on.
C5_Witness ==
    /\ CliTurn /\ last.called /\ last.raised
    /\ IsErrorText(last.shown) /\ pc = "loop"

\* C6: one user message costs at most one request to the completion endpoint,
\* and none when the retrieval fails or the API key is missing.
C6_NoRetry ==
    /\ \A keySet \in BOOLEAN :
          /\ \A http \in HttpOutcomes(TgReplies) :
                TgQueryAI(keySet, http).posts = (IF keySet THEN 1 ELSE 0)
          /\ \A http \in HttpOutcomes(CliReplies) :
                CliQueryAI(keySet, http).posts = (IF keySet THEN 1 ELSE 0)
    /\ last.posts <= 1
    /\ last.cause \in {"key", "retrieval"} => last.posts = 0
    /\ (TgTurn \/ CliTurn) => (last.posts = 1 <=> last.called)

\* A request that failed, posted once.
C6_Witness == last.called /\ last.cause \in {"conn", "status"} /\ last.posts = 1

C8_CancelEnds ==
    \A m \in members :
        (m[1] \in sinceCancel) =>
            /\ m[1] \notin DOMAIN user_sessions
            /\ \A text \in TgTexts :
                  ~IsCommand(text) => Dispatch(conv[m], text).handler = "generic_message"

\* C9: when a dependency check fails the Telegram bot has neither opened the
\* vector store nor started polling.
C9_ChecksBeforeStore ==
    (frontend = "telegram" /\ ~CheckDependencies(env)) =>
        (~storeOpened /\ pc # "polling")

\* C10: no assistant entry of the CLI history starts with "Error:", every
\* assistant entry follows the user entry of its turn, and every completed
\* turn has exactly one user entry.
C10_CliHistoryWellFormed ==
    /\ \A i \in 1..Len(chat_history) :
          chat_history[i].role = "assistant" =>
              /\ ~StartsWith(chat_history[i].content, <<"Error:">>)
              /\ i > 1
              /\ chat_history[i - 1].role = "user"
              /\ chat_history[i - 1].turn = chat_history[i].turn
    /\ \A t \in 1..cliTurns :
          Cardinality({i \in 1..Len(chat_history) :
                          chat_history[i].role = "user" /\ chat_history[i].turn = t}) = 1
    /\ \A i \in 1..Len(chat_history) : chat_history[i].turn \in 1..cliTurns

\* A turn whose result was an error: its user entry is the last entry, after
\* an earlier turn that has an assistant entry.
C10_Witness ==
    /\ CliTurn /\ StartsWith(last.result, <<"Error:">>)
    /\ Len(chat_history) >= 3
    /\ chat_history[Len(chat_history)].role = "user"
    /\ chat_history[Len(chat_history) - 1].role = "assistant"

\* C11: the CLI loop ends at a quit word and at an interrupt, and once its
\* input has ended it stops instead of going round for ever.
C11_LoopTerminates ==
    /\ [][((\E raw \in CliInputs : CliQuit(raw)) \/ CliInterrupt) => pc' = "exited"]_vars
    /\ (frontend = "cli" /\ pc \in {"loop", "except"} /\ stdin = "eof") ~> (pc = "exited")

====
